---- MODULE Spec2Model ----
(***************************************************************************)
(* Model of node-arcgis-featureservice (src/src/index.js): the             *)
(* FeatureService client, its constructor, the four operations get, add,   *)
(* update and delete, and the two response handlers.                       *)
(*                                                                         *)
(* JavaScript values are written as their literals: "undefined", "null",   *)
(* "true", "false", "7", "NaN", "'text'".  A JavaScript object with scalar  *)
(* properties is a function from its own keys to such values.              *)
(***************************************************************************)
EXTENDS Naturals, Sequences, FiniteSets, TLC

VARIABLES
  options,        \* the configuration object as the caller passed it
  settings,       \* this.settings
  token,          \* this.token
  params,         \* the params object the caller holds (as it is now)
  paramsBefore,   \* the same object as it was when the last get was called
  pc,             \* "idle", "pending" (request in flight) or "done"
  req,            \* the request handed to the transport
  op,             \* the operation of the call: "get", "add", "update", "delete"
  esri,           \* esriJson, the feature update and add serialize
  resp,           \* the transport outcome delivered to the handler
  cb              \* what the caller's callback has seen in this call

vars == <<options, settings, token, params, paramsBefore, pc, op, req, esri, resp, cb>>

----------------------------------------------------------------------------
(* Bounds *)

\* longest features list in a query response
MaxFeatures == 2

\* longest results list in a mutation response
MaxResults == 2

----------------------------------------------------------------------------
(* JavaScript values *)

Undef == "undefined"
Null == "null"
NaN == "NaN"

\* ToBoolean
Truthy(v) == v \notin {"undefined", "null", "false", "0", "NaN", "''"}

\* obj[k] for an object held as a function: undefined when k is no own key
Prop(obj, k) == IF k \in DOMAIN obj THEN obj[k] ELSE Undef

\* obj[k] = v
SetProp(obj, k, v) ==
  [j \in (DOMAIN obj) \cup {k} |-> IF j = k THEN v ELSE obj[j]]

EmptyObject == [k \in {} |-> Undef]

\* lodash.defaults(object, source): every property of source is assigned to
\* object where object's property resolves to undefined; object's other
\* properties stay.  The result is the (mutated) first argument.
defaults(object, source) ==
  [k \in (DOMAIN object) \cup (DOMAIN source) |->
     IF Prop(object, k) # Undef THEN object[k] ELSE Prop(source, k)]

\* Number(v)
Number(v) ==
  CASE v = "undefined" -> NaN
    [] v = "null" -> "0"
    [] v = "true" -> "1"
    [] v = "false" -> "0"
    [] v = "''" -> "0"
    [] v = "'7'" -> "7"
    [] OTHER -> v

IsNumber(v) == v \in {"0", "1", "7", "NaN"}

----------------------------------------------------------------------------
(* Construction *)

OptionKeys ==
  {"returnCountsOnly", "returnIdsOnly", "returnGeometry", "outSR", "outFields", "f"}

\* this.defaultSettings.defaultResultOptions
BuiltinResultOptions ==
  [returnCountsOnly |-> "false", returnIdsOnly |-> "false",
   returnGeometry |-> "true", outSR |-> "'4326'", outFields |-> "'*'", f |-> "'json'"]

\* An object-valued property that may be missing: has = FALSE is undefined.
NoObject == [has |-> FALSE, obj |-> EmptyObject]
Object(o) == [has |-> TRUE, obj |-> o]

\* this.defaultSettings
defaultSettings ==
  [given |-> TRUE, url |-> Undef, idField |-> Undef, token |-> Undef,
   defaultResultOptions |-> Object(BuiltinResultOptions)]

\* defaults(options, this.defaultSettings): defaultSettings has the one key
\* defaultResultOptions
defaultsSettings(opts, dflt) ==
  [opts EXCEPT !.defaultResultOptions =
     IF opts.defaultResultOptions.has THEN @ ELSE dflt.defaultResultOptions]

\* A constructor that stops after the top-level merge.
FeatureServiceOneLevel(opts) ==
  IF opts.given THEN defaultsSettings(opts, defaultSettings) ELSE defaultSettings

\* FeatureService(options): the value of this.settings
FeatureService(opts) ==
  LET s == IF opts.given THEN defaultsSettings(opts, defaultSettings) ELSE defaultSettings
  IN IF opts.given /\ opts.defaultResultOptions.has
       THEN [s EXCEPT !.defaultResultOptions =
               Object(defaults(opts.defaultResultOptions.obj,
                               defaultSettings.defaultResultOptions.obj))]
       ELSE s

\* The constructor assigns this.defaultSettings and this.settings and nothing
\* else: this.token is never assigned.
ThisToken(opts) == Undef

Tokens == {"'T1'", "'T2'"}
ConfigTokens == {"'T1'", Undef}
Urls == {"'http://host/arcgis/rest/services/S/FeatureServer/0'"}
\* idField names an attribute: it is written as the property key
IdFields == {"OBJECTID", "FID"}

\* What a caller may write for a result option
OptionValues(k) == IF k = "outSR" THEN {"''", Null, Undef} ELSE {"false"}

\* defaultResultOptions sub-objects a caller passes: {}, one option set, or
\* all six set
ResultOptionObjects ==
  {EmptyObject}
    \cup {[k \in {k0} |-> v] : k0 \in OptionKeys, v \in {"false", "''", Null, Undef}}
    \cup {[k \in OptionKeys |-> "false"]}

NoOptions ==
  [given |-> FALSE, url |-> Undef, idField |-> Undef, token |-> Undef,
   defaultResultOptions |-> NoObject]

\* the configurations a caller constructs the client with: none at all, or
\* url, idField and token with or without defaultResultOptions
Configurations ==
  {NoOptions}
    \cup [given : {TRUE}, url : Urls, idField : {"OBJECTID"}, token : ConfigTokens,
          defaultResultOptions :
            {NoObject} \cup {Object(o) : o \in {r \in ResultOptionObjects :
                                \A k \in DOMAIN r : r[k] \in OptionValues(k)}}]
    \cup [given : {TRUE}, url : Urls, idField : IdFields \ {"OBJECTID"},
          token : ConfigTokens, defaultResultOptions : {NoObject}]

----------------------------------------------------------------------------
(* get *)

CallerKeys == {"where", "outSR", "token"}

CallerValues(k) ==
  CASE k = "where" -> {"'A > 10'"}
    [] k = "outSR" -> {"''", Null, Undef}
    [] k = "token" -> Tokens

\* the params objects a caller passes to get
ParamObjects ==
  UNION {{p \in [S -> UNION {CallerValues(k) : k \in CallerKeys}] :
            \A k \in S : p[k] \in CallerValues(k)} : S \in SUBSET CallerKeys}

\* the defaults taken the other way round: the stored option wins
paramsWithDefaultsSwapped(p, s, t) ==
  SetProp(defaults(s.defaultResultOptions.obj, p), "token", t)

\* lines 51-52: paramsWithDefaults, which is the caller's params object itself
paramsWithDefaults(p, s, t) ==
  SetProp(defaults(p, s.defaultResultOptions.obj), "token", t)

----------------------------------------------------------------------------
(* What a callback receives *)

\* one element of a mutation response's results list
NoResult == [type |-> "undefined", success |-> Undef, errType |-> "undefined",
             description |-> Undef, code |-> Undef]

\* callback(null): the error argument is null
NoError == [kind |-> "null", message |-> Undef, code |-> Undef,
            details |-> Undef, result |-> NoResult]

\* new Error(message): an undefined message gives the message ''
Error(message) ==
  [kind |-> "Error", message |-> IF message = Undef THEN "''" ELSE message,
   code |-> Undef, details |-> Undef, result |-> NoResult]

\* the err object the transport hands over
TransportError ==
  [kind |-> "transport", message |-> "'ETIMEDOUT'", code |-> "'ETIMEDOUT'",
   details |-> Undef, result |-> NoResult]

\* the errors the handlers build themselves
ParseError == Error("'Response body was null or could not be parsed'")
ResultsError == Error("'Results object not found or is not as expected'")
UnexpectedError == Error("'Feature service error: unexpected result'")
FeaturesError == Error("'features are undefined'")

NoGeojson == [type |-> Undef, features |-> <<>>]

\* the callback has not been called
NotCalled == [count |-> 0, thrown |-> FALSE, argc |-> 0, err |-> NoError,
              result |-> NoGeojson]

\* callback(err): one argument
CallbackError(e) == [count |-> 1, thrown |-> FALSE, argc |-> 1, err |-> e,
                     result |-> NoGeojson]

\* callback(null): one argument
CallbackNull == [count |-> 1, thrown |-> FALSE, argc |-> 1, err |-> NoError,
                 result |-> NoGeojson]

\* callback(null, geojson): two arguments
CallbackResult(g) == [count |-> 1, thrown |-> FALSE, argc |-> 2, err |-> NoError,
                      result |-> g]

\* the handler threw (a TypeError or a SyntaxError) before it reached any
\* callback call
Thrown == [count |-> 0, thrown |-> TRUE, argc |-> 0, err |-> NoError,
           result |-> NoGeojson]

----------------------------------------------------------------------------
(* Query responses and _getRequestCallback *)

\* features of the service, as the service writes them
EsriFeatures ==
  {[attributes |-> "{OBJECTID:1}", geometry |-> "{x:1,y:2}"],
   [attributes |-> "{OBJECTID:2}", geometry |-> "{x:3,y:4}"]}

\* arcgis.parse(esriFeature): the feature in GeoJSON
parse(e) == [type |-> "Feature", geometry |-> e.geometry, properties |-> e.attributes]

SeqsUpTo(S, n) == UNION {[1..m -> S] : m \in 0..n}

\* body.error
NoBodyError == [has |-> FALSE, message |-> Undef, code |-> Undef, details |-> Undef]
BodyErrors ==
  {NoBodyError,
   [has |-> TRUE, message |-> "'m'", code |-> "1", details |-> "['d']"]}

\* body.features: missing, a string (no map), or a list
BodyFeatures ==
  {[type |-> "undefined", elems |-> <<>>], [type |-> "string", elems |-> <<>>]}
    \cup {[type |-> "array", elems |-> es] : es \in SeqsUpTo(EsriFeatures, MaxFeatures)}

\* the body request hands to the get callback (json: true): nothing at all
\* for an empty response, the raw text when it was no JSON, else the object
GetBodies ==
  [type : {"undefined", "string"}, error : {NoBodyError},
   features : {[type |-> "undefined", elems |-> <<>>]}]
    \cup [type : {"object"}, error : BodyErrors, features : BodyFeatures]

GetOutcomes ==
  {[err |-> TRUE, body |-> b] : b \in {x \in GetBodies : x.type = "undefined"}}
    \cup {[err |-> FALSE, body |-> b] : b \in GetBodies}

\* esriFeatures.map(arcgis.parse)
mapParse(elems) == [i \in 1..Len(elems) |-> parse(elems[i])]

\* _getRequestCallback(err, response, body)
getRequestCallback(err, body) ==
  IF err THEN CallbackError(TransportError)
  ELSE IF body.type = "undefined" THEN Thrown     \* body.error of undefined
  ELSE IF body.type = "object" /\ body.error.has
    THEN CallbackError([Error(body.error.message) EXCEPT
                          !.code = body.error.code,
                          !.details = body.error.details])
  ELSE IF body.type # "object" \/ body.features.type # "array"
    THEN CallbackError(FeaturesError)
  ELSE CallbackResult([type |-> "'FeatureCollection'",
                       features |-> mapParse(body.features.elems)])

----------------------------------------------------------------------------
(* Requests *)

NoForm == [f |-> Undef, features |-> <<>>, objectIds |-> Undef,
           rollbackOnFailure |-> Undef, token |-> Undef]

NoEsriJson == [geometry |-> Undef, attributes |-> EmptyObject]

NoRequest == [method |-> "none", url |-> Undef, path |-> "", qs |-> EmptyObject,
              json |-> FALSE, form |-> NoForm]

\* no transport outcome yet
NoOutcome == [err |-> FALSE, body |-> [type |-> "none"]]

\* FeatureService.prototype.get(params, callback), up to request.get
get(p) ==
  /\ pc \in {"idle", "done"}
  /\ paramsBefore' = p
  /\ params' = paramsWithDefaults(p, settings, token)
  /\ req' = [NoRequest EXCEPT !.method = "GET", !.url = settings.url,
               !.path = "/query", !.qs = params', !.json = TRUE]
  /\ esri' = NoEsriJson
  /\ op' = "get"
  /\ pc' = "pending"
  /\ cb' = NotCalled
  /\ resp' = NoOutcome
  /\ UNCHANGED <<options, settings, token>>

\* a get call with a fresh params object
GetFresh == \E p \in ParamObjects : get(p)

\* a get call with the params object of the call before
GetReuse == pc = "done" /\ get(params)

\* the transport answers the get
GetResponse ==
  /\ pc = "pending"
  /\ req.method = "GET"
  /\ \E o \in GetOutcomes :
       /\ resp' = o
       /\ cb' = getRequestCallback(o.err, o.body)
  /\ pc' = "done"
  /\ req' = NoRequest
  /\ UNCHANGED <<options, settings, token, params, paramsBefore, op, esri>>

----------------------------------------------------------------------------
(* Mutation responses and handleEsriResponse *)

NullResult == [NoResult EXCEPT !.type = "null"]

\* one character of a string, reached as string[0]
CharResult == [NoResult EXCEPT !.type = "string"]

\* the result objects a service may write: success missing, true or false;
\* error missing or an object { description, code }
ResultObjects ==
  {[type |-> "object", success |-> s, errType |-> "undefined",
    description |-> Undef, code |-> Undef] : s \in {Undef, "true", "false"}}
    \cup {[type |-> "object", success |-> s, errType |-> "object",
           description |-> "'bad'", code |-> "99"] : s \in {Undef, "true", "false"}}

\* the value under the body's first key
UndefinedResults == [type |-> "undefined", elems |-> <<>>]
ResultsValues ==
  {UndefinedResults}
    \cup {[type |-> t, elems |-> <<>>] : t \in {"null", "number", "object", "string"}}
    \cup {[type |-> "string", elems |-> <<CharResult, CharResult>>]}
    \cup {[type |-> "array", elems |-> es] :
            es \in SeqsUpTo(ResultObjects \cup {NullResult}, MaxResults)}

\* what JSON.parse gives for a well-formed body: null, false, 0, a number,
\* a string, or an object (first: the value of its first key, undefined
\* for {})
JsonValues ==
  {[type |-> t, first |-> UndefinedResults] : t \in {"null", "false", "zero", "number", "string"}}
    \cup {[type |-> "object", first |-> r] : r \in ResultsValues}

NoJson == [type |-> "undefined", first |-> UndefinedResults]

\* the raw body request hands to the post callback: undefined, '', text that
\* is no JSON, or JSON text (text: what it parses to)
PostBodies ==
  {[type |-> t, text |-> NoJson] : t \in {"undefined", "empty", "garbage"}}
    \cup {[type |-> "json", text |-> j] : j \in JsonValues}

PostOutcomes ==
  {[err |-> TRUE, body |-> b] : b \in {x \in PostBodies : x.type = "undefined"}}
    \cup {[err |-> FALSE, body |-> b] : b \in PostBodies}

\* !json
FalsyJson(json) == json.type \in {"undefined", "null", "false", "zero"}

\* json[Object.keys(json)[0]]
firstValue(json) ==
  CASE json.type = "object" -> json.first
    [] json.type = "string" -> [type |-> "string", elems |-> <<CharResult>>]
    [] OTHER -> UndefinedResults

\* results.length
length(results) ==
  IF results.type \in {"array", "string"} THEN Len(results.elems) ELSE 0

\* a check that forgets the length
resultsMissingNoLength(results) ==
  \/ results.type \in {"undefined", "null"}
  \/ results.type = "string" /\ results.elems = <<>>

\* line 176: !results || !results.length
resultsMissing(results) ==
  \/ results.type \in {"undefined", "null"}
  \/ results.type = "string" /\ results.elems = <<>>
  \/ length(results) = 0

\* lines 182-197: the outcome for results[0]
handleResult(results) ==
  IF results.elems = <<>> THEN Thrown                \* result is undefined
  ELSE LET result == results.elems[1]
       IN IF result.type = "null" THEN Thrown        \* result.success of null
          ELSE IF Truthy(result.success) THEN CallbackNull
          ELSE IF result.errType # "undefined"
            THEN CallbackError([Error(result.description) EXCEPT !.code = result.code])
          ELSE CallbackError([UnexpectedError EXCEPT !.result = result])

\* handleEsriResponse(callback)(err, response, body)
handleEsriResponse(err, body) ==
  IF err THEN CallbackError(TransportError)
  ELSE IF body.type = "garbage" THEN Thrown          \* JSON.parse throws
  ELSE LET json == IF body.type = "json" THEN body.text ELSE NoJson
       IN IF FalsyJson(json)
            THEN CallbackError(ParseError)
          ELSE IF resultsMissing(firstValue(json))
            THEN CallbackError(ResultsError)
          ELSE handleResult(firstValue(json))

----------------------------------------------------------------------------
(* add, update, delete *)

AttributeKeys == {"OBJECTID", "FID"}
AttributeValues == {"7", "'7'"}

\* the GeoJSON features a caller passes
GeojsonFeatures ==
  [type : {"Feature"}, id : {Undef, "7"}, geometry : {"{type:'Point'}"},
   properties : UNION {[S -> AttributeValues] : S \in SUBSET AttributeKeys}]

\* arcgis.convert(geojson): properties become attributes, and a feature id
\* is stored under OBJECTID
convert(g) ==
  [geometry |-> g.geometry,
   attributes |-> IF Truthy(g.id) THEN SetProp(g.properties, "OBJECTID", g.id)
                  ELSE g.properties]

\* JSON.stringify of the attributes: an undefined property is left out and
\* NaN is written as null
stringify(o) ==
  [k \in {j \in DOMAIN o : o[j] # Undef} |-> IF o[k] = NaN THEN Null ELSE o[k]]

\* line 120: esriJson.attributes.OBJECTID = Number(esriJson.attributes.OBJECTID)
coerceId(e, s) ==
  [e EXCEPT !.attributes = SetProp(@, "OBJECTID", Number(Prop(@, "OBJECTID")))]

\* request.post with form fields f, features, token
postFeatures(name, path, esriJson) ==
  /\ pc \in {"idle", "done"}
  /\ op' = name
  /\ req' = [NoRequest EXCEPT !.method = "POST", !.url = settings.url, !.path = path,
               !.form = [NoForm EXCEPT !.f = "'json'", !.token = token,
                           !.features = <<[esriJson EXCEPT !.attributes = stringify(@)]>>]]
  /\ esri' = esriJson
  /\ pc' = "pending"
  /\ cb' = NotCalled
  /\ resp' = NoOutcome
  /\ UNCHANGED <<options, settings, token, params, paramsBefore>>

\* FeatureService.prototype.add(geojson, callback)
add == \E g \in GeojsonFeatures : postFeatures("add", "/addFeatures", convert(g))

\* FeatureService.prototype.update(geojson, callback)
update ==
  \E g \in GeojsonFeatures : postFeatures("update", "/updateFeatures", coerceId(convert(g), settings))

DeleteIds == {"7", "'7,8'"}

\* FeatureService.prototype.delete(id, callback)
delete ==
  /\ pc \in {"idle", "done"}
  /\ \E id \in DeleteIds :
       req' = [NoRequest EXCEPT !.method = "POST", !.url = settings.url,
                 !.path = "/deleteFeatures",
                 !.form = [NoForm EXCEPT !.f = "'json'", !.token = token,
                             !.objectIds = id, !.rollbackOnFailure = "true"]]
  /\ esri' = NoEsriJson
  /\ op' = "delete"
  /\ pc' = "pending"
  /\ cb' = NotCalled
  /\ resp' = NoOutcome
  /\ UNCHANGED <<options, settings, token, params, paramsBefore>>

\* the transport answers the post
PostResponse ==
  /\ pc = "pending"
  /\ req.method = "POST"
  /\ \E o \in PostOutcomes :
       /\ resp' = o
       /\ cb' = handleEsriResponse(o.err, o.body)
  /\ pc' = "done"
  /\ op' = op
  /\ req' = NoRequest
  /\ esri' = NoEsriJson
  /\ UNCHANGED <<options, settings, token, params, paramsBefore>>

----------------------------------------------------------------------------
(* Specifications *)

Init ==
  /\ options \in Configurations
  /\ settings = FeatureService(options)
  /\ token = ThisToken(options)
  /\ params = EmptyObject
  /\ paramsBefore = EmptyObject
  /\ pc = "idle"
  /\ op = "none"
  /\ req = NoRequest
  /\ esri = NoEsriJson
  /\ resp = NoOutcome
  /\ cb = NotCalled

\* a caller that queries
NextQuery == GetFresh \/ GetReuse \/ GetResponse

\* a caller that adds, updates and deletes
NextMutation == add \/ update \/ delete \/ PostResponse

SpecQuery == Init /\ [][NextQuery]_vars

SpecMutation == Init /\ [][NextMutation]_vars

----------------------------------------------------------------------------
(* Claims *)

Mutations == {"add", "update", "delete"}

\* a mutation call has been answered without a transport error
MutationAnswered == pc = "done" /\ op \in Mutations /\ ~resp.err

\* the answered body was JSON text for an object whose first key holds a list
AnsweredWithList ==
  /\ MutationAnswered
  /\ resp.body.type = "json"
  /\ resp.body.text.type = "object"
  /\ resp.body.text.first.type = "array"

\* C1: every operation calls its callback exactly once, whatever the
\* transport delivers: once a call has been answered the callback has been
\* invoked one time.
C1_CallbackExactlyOnce == pc = "done" => cb.count = 1

\* C2: a get on a client configured with token T sends token T in the query
\* parameters, whatever token the caller's params carried.
C2_TokenFromConfig ==
  (pc = "pending" /\ op = "get" /\ options.given /\ options.token # Undef)
    => Prop(req.qs, "token") = options.token

\* C3: for add, update and delete, with no transport error and a body that is
\* absent or cannot be parsed as JSON, the callback receives the error
\* "Response body was null or could not be parsed".
C3_UnparsableBodyError ==
  (MutationAnswered /\ resp.body.type \in {"undefined", "empty", "garbage"})
    => cb = CallbackError(ParseError)

\* C4: update makes the attribute stored under the configured idField a
\* number before the feature is serialized, for every configured idField:
\* where the feature update serializes holds that attribute, it is a number.
C4_UpdateCoercesIdField ==
  (pc = "pending" /\ op = "update" /\ settings.idField \in DOMAIN esri.attributes)
    => IsNumber(esri.attributes[settings.idField])

C6_FirstElementDecides ==
  (AnsweredWithList /\ resp.body.text.first.elems # <<>>)
    => LET result == resp.body.text.first.elems[1]
       IN cb = IF Truthy(result.success) THEN CallbackNull
               ELSE IF result.errType = "object"
                 THEN CallbackError([Error(result.description) EXCEPT !.code = result.code])
               ELSE CallbackError([UnexpectedError EXCEPT !.result = result])

\* C7: get arbitrates in a fixed order for every transport outcome: the
\* transport error unchanged; else the body's error object as an error with
\* its message, code and details and no result; else "features are undefined"
\* when features is missing or no list; else null and the FeatureCollection of
\* the converted features, same length, same order.
C7_GetArbitration ==
  (pc = "done" /\ op = "get")
    => cb = IF resp.err THEN CallbackError(TransportError)
            ELSE IF resp.body.error.has
              THEN CallbackError([Error(resp.body.error.message) EXCEPT
                                    !.code = resp.body.error.code,
                                    !.details = resp.body.error.details])
            ELSE IF resp.body.features.type # "array"
              THEN CallbackError(FeaturesError)
            ELSE CallbackResult(
                   [type |-> "'FeatureCollection'",
                    features |-> [i \in 1..Len(resp.body.features.elems) |->
                                    parse(resp.body.features.elems[i])]])

\* C8: for every key other than token, the parameter sent to the transport is
\* the caller's value when the caller's params define the key (hold a value
\* other than undefined for it) and the configured default result option
\* otherwise.
C8_CallerParamsOverrideDefaults ==
  (pc = "pending" /\ op = "get")
    => /\ DOMAIN req.qs = DOMAIN paramsBefore \cup OptionKeys \cup {"token"}
       /\ \A k \in DOMAIN req.qs \ {"token"} :
            req.qs[k] = IF Prop(paramsBefore, k) # Undef THEN paramsBefore[k]
                        ELSE Prop(settings.defaultResultOptions.obj, k)

C8_Witness ==
  /\ pc = "pending" /\ op = "get"
  /\ Prop(paramsBefore, "outSR") = "''"
  /\ Prop(paramsBefore, "f") = Undef
  /\ settings.defaultResultOptions.obj["outSR"] = "'4326'"
  /\ req.qs["outSR"] = "''"
  /\ req.qs["f"] = "'json'"
  /\ Prop(req.qs, "where") = "'A > 10'"

\* C9: construction merges on two levels: without defaultResultOptions the
\* stored result options are the built-in ones; with a partial
\* defaultResultOptions each option is the caller's value when supplied (not
\* undefined) and the built-in value otherwise; url, idField and token are
\* kept.
C9_TwoLevelDefaultMerge ==
  LET builtin == [returnGeometry |-> "true", outSR |-> "'4326'", outFields |-> "'*'",
                  f |-> "'json'", returnCountsOnly |-> "false",
                  returnIdsOnly |-> "false"]
      stored == settings.defaultResultOptions
  IN /\ stored.has
     /\ DOMAIN stored.obj = DOMAIN builtin
     /\ (~options.given \/ ~options.defaultResultOptions.has) => stored.obj = builtin
     /\ (options.given /\ options.defaultResultOptions.has)
          => \A k \in DOMAIN builtin :
               stored.obj[k] =
                 IF Prop(options.defaultResultOptions.obj, k) # Undef
                   THEN options.defaultResultOptions.obj[k]
                   ELSE builtin[k]
     /\ options.given
          => /\ settings.url = options.url
             /\ settings.idField = options.idField
             /\ settings.token = options.token

C9_Witness ==
  /\ options.given
  /\ options.token = "'T1'"
  /\ options.defaultResultOptions.has
  /\ DOMAIN options.defaultResultOptions.obj = {"outSR"}
  /\ options.defaultResultOptions.obj["outSR"] = "''"
  /\ settings.defaultResultOptions.obj["outSR"] = "''"
  /\ settings.defaultResultOptions.obj["returnGeometry"] = "true"
  /\ settings.token = "'T1'"
  /\ pc = "done"

\* C10: a get call leaves its inputs as they were: the stored default result
\* options are those of construction, and the caller's params object holds
\* the same keys and values after the call as before it.
C10_GetLeavesInputsUnchanged ==
  /\ settings = FeatureService(options)
  /\ (pc \in {"pending", "done"} /\ op = "get") => params = paramsBefore

====
